---- MODULE Spec2Model ----
(***************************************************************************)
(* A model of the rivas-lab/mrp repository's orchestration and              *)
(* data-preparation code:                                                   *)
(*   - aux/submit_jobs.sh, the batch-submission loop (SpecSubmit; with the  *)
(*     shell's progress, SpecSubmitFair; run several times, SpecSubmitRuns);*)
(*   - aux/process_phenotypes.py as its README describes it (SpecPheno);    *)
(*   - the "array" reference clean-up notebook (SpecQC);                    *)
(*   - the combined array+exome reference notebook (SpecCombined);          *)
(*   - the command line of mrp.py as its help text declares it (SpecMRP,    *)
(*     and SpecMRPGrid for the options that take several values).           *)
(* Strings that the code builds by concatenation are modelled as the        *)
(* sequence of their pieces, so that two built strings are equal exactly    *)
(* when their pieces are.                                                   *)
(***************************************************************************)
EXTENDS Integers, Sequences, FiniteSets, TLC

VARIABLES
    \* ---- submit_jobs.sh
    inDir,        \* names present in DIRECTORY
    outFS,        \* kind of each path of OUTPUT_DIRECTORY: "none", "file", "dir"
    pc,           \* position of the running script
    runs,         \* number of runs of the script started so far
    runLimit,     \* number of runs of the script this behaviour may start
    files,        \* the word list of the outer for loop (the expanded glob)
    fi,           \* index of FILE in files
    ti,           \* index of TYPE in TYPES_OF_ANALYSIS
    console,      \* standard output of the current run
    visited,      \* the (FILE, TYPE) pairs whose test was evaluated in the current run,
                  \* each with the kind its output path had at that moment
    sbatchCalls,  \* every sbatch invocation so far, in order
    queue,        \* indices in sbatchCalls of the jobs that are pending or running
    envEvents     \* number of events of the environment so far: an output path
                  \* created by someone else, a rejected sbatch, a job that ended

subVars == <<inDir, outFS, pc, runs, runLimit, files, fi, ti, console, visited,
             sbatchCalls, queue, envEvents>>

VARIABLES
    \* ---- the "array" reference clean-up notebook
    qc_pc,             \* the last cell executed
    in_df,             \* the reference file, read
    qc_annotation_df,  \* the variant annotation file of the array, read
    merged_df,         \* in_df with the FILTER column joined
    qc_out_f           \* the rows written to out_f

qcVars == <<qc_pc, in_df, qc_annotation_df, merged_df, qc_out_f>>

VARIABLES
    \* ---- the combined array+exome reference notebook
    cmb_pc,            \* the last cell executed
    in_array_df,       \* the array reference file, read
    in_exome_df,       \* the exome reference file, read
    annotation_df,     \* the selected columns of the array+exome annotation file
    exome_hg19_df,     \* the exome rows with their hg19 identifier
    exome_hg19_src,    \* for each row of exome_hg19_df, the rows it was joined from
    combined_df,       \* the combined dataset
    combined_src,      \* for each row of combined_df, the rows it was joined from
    out_f              \* the rows written to out_f

cmbVars == <<cmb_pc, in_array_df, in_exome_df, annotation_df, exome_hg19_df,
             exome_hg19_src, combined_df, combined_src, out_f>>

VARIABLES
    \* ---- mrp.py, as its help text declares it
    mrp_pc,            \* "start", "error" (the parser exits), "running", "done"
    args,              \* the command line: the values that follow each option
    metadata,          \* the metadata file: the consequence of each variant
    sigma_m,           \* the prior spread given to each variant that has one
    todo,              \* the analyses still to run: one combination of values each
    analysed,          \* for each variant set analysed, the variants it kept
    analyses,          \* the combinations analysed so far, in order
    results            \* the output rows: one per variant set and group

mrpVars == <<mrp_pc, args, metadata, sigma_m, todo, analysed, analyses, results>>

VARIABLES
    \* ---- process_phenotypes.py, as its README describes it
    ph_pc,             \* "start", "loop", "export", "skip", "done"
    ph_codes,          \* the phenotype codes of the columns of the MatrixTable
    start_index,       \* first command-line argument
    end_index,         \* second command-line argument
    ph_todo,           \* the phenotypes of the range still to process
    ph_fs,             \* for each code, who wrote its file of the output directory
    ph_tested,         \* the phenotypes tested so far, each with its file at that moment
    ph_exported,       \* the phenotypes exported so far, each with its file just before
    ph_env             \* number of files written by someone else during the run

phVars == <<ph_pc, ph_codes, start_index, end_index, ph_todo, ph_fs, ph_tested,
            ph_exported, ph_env>>

vars == <<subVars, qcVars, cmbVars, mrpVars, phVars>>

\* What each program leaves alone: the state of the others.
notSubmit == <<qcVars, cmbVars, mrpVars, phVars>>
notQC == <<subVars, cmbVars, mrpVars, phVars>>
notCombined == <<subVars, qcVars, mrpVars, phVars>>
notMRP == <<subVars, qcVars, cmbVars, phVars>>
notPheno == <<subVars, qcVars, cmbVars, mrpVars>>

(***************************************************************************)
(* Bounds of the model.                                                     *)
(***************************************************************************)
MaxFiles == 2
MaxEnvEvents == 2
MaxAnnot == 2
MaxRows == 2
MaxQCRows == 3
MaxMethods == 2
MaxVariants == 2
MaxOptionsGiven == 2
MaxPhenotypes == 3
MaxRuns == 2

(***************************************************************************)
(* submit_jobs.sh                                                           *)
(***************************************************************************)
DIRECTORY == "/scratch/groups/mrivas/genebassout/"
OUTPUT_DIRECTORY == "/scratch/groups/mrivas/mrpout_genebass/"
TYPES_OF_ANALYSIS == <<"ultrarare", "pav", "missenseonly">>
GENEBASS_SUFFIX == ".genebass.tsv.gz"

\* Phenotype codes, in the collation order of the shell.
StemPool == <<"100009", "100010", "100011", "100012", "100013">>
Stems == {StemPool[i] : i \in 1..MaxFiles}
StemIdx(s) == CHOOSE i \in 1..Len(StemPool) : StemPool[i] = s

\* Names a directory entry of DIRECTORY can have: a genebass file per
\* phenotype code, and one entry that the glob does not match.
GenebassNames == [stem : Stems, ext : {GENEBASS_SUFFIX}]
OtherName == [stem |-> StemPool[1], ext |-> ".log"]
NamePool == GenebassNames \cup {OtherName}

Path(dir, name) == [dir |-> dir, stem |-> name.stem, ext |-> name.ext]

\* The pattern of line 11 as a word: what the loop receives when nothing matches.
GlobPattern == [dir |-> DIRECTORY, stem |-> "*", ext |-> GENEBASS_SUFFIX]

Matches(name) == name.ext = GENEBASS_SUFFIX /\ name.stem # ""

RECURSIVE SortedPaths(_)
SortedPaths(S) ==
    IF S = {} THEN <<>>
    ELSE LET m == CHOOSE x \in S : \A y \in S : StemIdx(x.stem) <= StemIdx(y.stem)
         IN <<Path(DIRECTORY, m)>> \o SortedPaths(S \ {m})

\* ${DIRECTORY}*.genebass.tsv.gz: pathname expansion.  The script sets neither
\* nullglob nor failglob, so a pattern that matches nothing stays as it is.
Glob(dir) ==
    LET hit == {n \in dir : Matches(n)}
    IN IF hit = {} THEN <<GlobPattern>> ELSE SortedPaths(hit)

\* basename "$FILE" .genebass.tsv.gz, as the pieces of the resulting string.
FILENAME(FILE) ==
    IF FILE.ext = GENEBASS_SUFFIX /\ FILE.stem # ""
    THEN <<FILE.stem>>
    ELSE <<FILE.stem, FILE.ext>>

OutputFileOfPath(FILE, TYPE) ==
    <<OUTPUT_DIRECTORY, "study1_", FILE.dir, FILE.stem, FILE.ext,
      "_", TYPE, "_gene_maf_0.01_se_1e+18.tsv.gz">>

OUTPUT_FILE(FILE, TYPE) ==
    <<OUTPUT_DIRECTORY, "study1_">> \o FILENAME(FILE)
        \o <<".genebass.tsv.gz_", TYPE, "_gene_maf_0.01_se_1e+18.tsv.gz">>

Types == {TYPES_OF_ANALYSIS[i] : i \in 1..Len(TYPES_OF_ANALYSIS)}

Kinds == {"none", "file", "dir"}

\* [ ! -f "$OUTPUT_FILE" ]
OutputMissingNotExists(fs, path) == fs[path] = "none"

OutputMissing(fs, path) == fs[path] # "file"

\* The sbatch command line of line 27: the job name, and the command string
\* given to --wrap, as its pieces.
SbatchCommandFirstType(FILE, TYPE) ==
    [J    |-> FILENAME(FILE) \o <<"_", TYPE>>,
     wrap |-> <<"python load_mrp.py '", FILE, "' '", TYPES_OF_ANALYSIS[1], "'">>]

SbatchCommand(FILE, TYPE) ==
    [J    |-> FILENAME(FILE) \o <<"_", TYPE>>,
     wrap |-> <<"python load_mrp.py '", FILE, "' '", TYPE, "'">>]

\* The words the job's shell makes of a --wrap string: the program, and the
\* two single-quoted pieces (no name of the model holds a quote).
WrapArgv(wrap) == <<wrap[1], wrap[2], wrap[4]>>

MsgChecking(out) == [msg |-> "Checking for", out |-> out]
MsgSubmitting(FILE, TYPE) == [msg |-> "Submitting job for", file |-> FILE, type |-> TYPE]
MsgExists(out) == [msg |-> "Output file already exists", out |-> out]

CurFile == files[fi]
CurType == TYPES_OF_ANALYSIS[ti]

\* The output paths the script can compute for a given content of DIRECTORY;
\* no other path of OUTPUT_DIRECTORY is ever read.
OutPathsOf(dir) ==
    {OUTPUT_FILE(Glob(dir)[i], t) : i \in 1..Len(Glob(dir)), t \in Types}

\* One run of the script, over any content of DIRECTORY.
SubmitInit ==
    /\ inDir \in {S \cup {OtherName} : S \in SUBSET GenebassNames}
    /\ outFS = [p \in OutPathsOf(inDir) |-> "none"]
    /\ pc = "start"
    /\ runs = 0
    /\ runLimit = 1
    /\ files = <<>>
    /\ fi = 1
    /\ ti = 1
    /\ console = <<>>
    /\ visited = <<>>
    /\ sbatchCalls = <<>>
    /\ queue = {}
    /\ envEvents = 0

\* One run of the script over two genebass files.
SubmitTwoFilesInit ==
    /\ inDir = {[stem |-> StemPool[1], ext |-> GENEBASS_SUFFIX],
                [stem |-> StemPool[2], ext |-> GENEBASS_SUFFIX], OtherName}
    /\ outFS = [p \in OutPathsOf(inDir) |-> "none"]
    /\ pc = "start"
    /\ runs = 0
    /\ runLimit = 1
    /\ files = <<>>
    /\ fi = 1
    /\ ti = 1
    /\ console = <<>>
    /\ visited = <<>>
    /\ sbatchCalls = <<>>
    /\ queue = {}
    /\ envEvents = 0

\* Several runs of the script, one after another, over one genebass file.
SubmitRunsInit ==
    /\ inDir = {[stem |-> StemPool[1], ext |-> GENEBASS_SUFFIX], OtherName}
    /\ outFS = [p \in OutPathsOf(inDir) |-> "none"]
    /\ pc = "start"
    /\ runs = 0
    /\ runLimit = MaxRuns
    /\ files = <<>>
    /\ fi = 1
    /\ ti = 1
    /\ console = <<>>
    /\ visited = <<>>
    /\ sbatchCalls = <<>>
    /\ queue = {}
    /\ envEvents = 0

\* bash submit_jobs.sh: a new process, and the expansion of line 11.
StartRun ==
    /\ pc \in {"start", "done"}
    /\ runs < runLimit
    /\ runs' = runs + 1
    /\ files' = Glob(inDir)
    /\ fi' = 1
    /\ ti' = 1
    /\ console' = <<>>
    /\ visited' = <<>>
    /\ pc' = "check"
    /\ UNCHANGED <<inDir, outFS, runLimit, sbatchCalls, queue, envEvents>>
    /\ UNCHANGED notSubmit

\* Lines 18-24: build OUTPUT_FILE, print it, evaluate the test.
Check ==
    /\ pc = "check"
    /\ LET out == OUTPUT_FILE(CurFile, CurType)
           missing == OutputMissing(outFS, out)
       IN /\ console' = Append(console, MsgChecking(out))
          /\ visited' = Append(visited,
                               [file |-> CurFile, type |-> CurType, out |-> out,
                                kind |-> outFS[out]])
          /\ pc' = IF missing THEN "submit" ELSE "skip"
    /\ UNCHANGED <<inDir, outFS, runs, runLimit, files, fi, ti, sbatchCalls, queue, envEvents>>
    /\ UNCHANGED notSubmit

\* done / done of lines 31-32: the next TYPE, the next FILE, or the end.
NextPc == IF ti < Len(TYPES_OF_ANALYSIS) \/ fi < Len(files) THEN "check" ELSE "done"
NextTi == IF ti < Len(TYPES_OF_ANALYSIS) THEN ti + 1 ELSE 1
NextFi == IF ti < Len(TYPES_OF_ANALYSIS) THEN fi ELSE fi + 1

Advance ==
    /\ pc' = NextPc
    /\ ti' = NextTi
    /\ fi' = IF NextPc = "done" THEN fi ELSE NextFi

\* Lines 26-27: the message, then sbatch, which queues the job or rejects it;
\* the script has no set -e and goes on either way.
Submit(accepted) ==
    /\ pc = "submit"
    /\ accepted \/ envEvents < MaxEnvEvents
    /\ console' = Append(console, MsgSubmitting(CurFile, CurType))
    /\ sbatchCalls' = Append(sbatchCalls,
                             [cmd |-> SbatchCommand(CurFile, CurType),
                              run |-> runs, visit |-> Len(visited),
                              accepted |-> accepted])
    /\ queue' = IF accepted THEN queue \cup {Len(sbatchCalls) + 1} ELSE queue
    /\ envEvents' = IF accepted THEN envEvents ELSE envEvents + 1
    /\ Advance
    /\ UNCHANGED <<inDir, outFS, runs, runLimit, files, visited>>
    /\ UNCHANGED notSubmit

SubmitAccepted == Submit(TRUE)

\* What the script would do under set -e: stop at the failing sbatch.
SubmitRejectedStops ==
    /\ pc = "submit"
    /\ envEvents < MaxEnvEvents
    /\ console' = Append(console, MsgSubmitting(CurFile, CurType))
    /\ sbatchCalls' = Append(sbatchCalls,
                             [cmd |-> SbatchCommand(CurFile, CurType),
                              run |-> runs, visit |-> Len(visited),
                              accepted |-> FALSE])
    /\ envEvents' = envEvents + 1
    /\ pc' = "done"
    /\ UNCHANGED <<inDir, outFS, runs, runLimit, files, fi, ti, visited, queue>>
    /\ UNCHANGED notSubmit

SubmitRejected == Submit(FALSE)

\* Line 29.
SkipSilently ==
    /\ pc = "skip"
    /\ console' = console
    /\ Advance
    /\ UNCHANGED <<inDir, outFS, runs, runLimit, files, visited, sbatchCalls, queue, envEvents>>
    /\ UNCHANGED notSubmit

Skip ==
    /\ pc = "skip"
    /\ console' = Append(console, MsgExists(OUTPUT_FILE(CurFile, CurType)))
    /\ Advance
    /\ UNCHANGED <<inDir, outFS, runs, runLimit, files, visited, sbatchCalls, queue, envEvents>>
    /\ UNCHANGED notSubmit

\* A queued job: python load_mrp.py FILE TYPE.  It writes the output file of
\* its pair when its input exists and the output path is not a directory.
JobInput(j) == WrapArgv(sbatchCalls[j].cmd.wrap)[2]
JobType(j) == WrapArgv(sbatchCalls[j].cmd.wrap)[3]

JobSucceeds(j) ==
    /\ j \in queue
    /\ envEvents < MaxEnvEvents
    /\ [stem |-> JobInput(j).stem, ext |-> JobInput(j).ext] \in inDir
    /\ outFS[OUTPUT_FILE(JobInput(j), JobType(j))] # "dir"
    /\ outFS' = [outFS EXCEPT ![OUTPUT_FILE(JobInput(j), JobType(j))] = "file"]
    /\ queue' = queue \ {j}
    /\ envEvents' = envEvents + 1
    /\ UNCHANGED <<inDir, pc, runs, runLimit, files, fi, ti, console, visited, sbatchCalls>>
    /\ UNCHANGED notSubmit

JobFails(j) ==
    /\ j \in queue
    /\ envEvents < MaxEnvEvents
    /\ queue' = queue \ {j}
    /\ envEvents' = envEvents + 1
    /\ UNCHANGED <<inDir, outFS, pc, runs, runLimit, files, fi, ti, console, visited,
                   sbatchCalls>>
    /\ UNCHANGED notSubmit

JobEnds == \E j \in queue : JobSucceeds(j)
JobDies == \E j \in queue : JobFails(j)

\* Someone else (an earlier run's job, a user) creates an output path.
ExternalCreate ==
    /\ envEvents < MaxEnvEvents
    /\ \E p \in DOMAIN outFS, k \in {"file", "dir"} :
          /\ outFS[p] = "none"
          /\ outFS' = [outFS EXCEPT ![p] = k]
    /\ envEvents' = envEvents + 1
    /\ UNCHANGED <<inDir, pc, runs, runLimit, files, fi, ti, console, visited,
                   sbatchCalls, queue>>
    /\ UNCHANGED notSubmit

SubmitNext ==
    \/ StartRun
    \/ Check
    \/ SubmitAccepted
    \/ SubmitRejected
    \/ Skip
    \/ JobEnds
    \/ JobDies
    \/ ExternalCreate

\* The steps of the script itself: the shell always runs its next command.
ScriptStep ==
    \/ StartRun
    \/ Check
    \/ SubmitAccepted
    \/ SubmitRejected
    \/ Skip

SubmitIdle ==
    /\ inDir = {}
    /\ outFS = <<>>
    /\ pc = "none"
    /\ runs = 0
    /\ runLimit = 0
    /\ files = <<>>
    /\ fi = 1
    /\ ti = 1
    /\ console = <<>>
    /\ visited = <<>>
    /\ sbatchCalls = <<>>
    /\ queue = {}
    /\ envEvents = 0

(***************************************************************************)
(* Data frames are sequences of rows; a row is a record of its columns.    *)
(***************************************************************************)
\* R's missing value, as read and as written (na = "NA").
NA == "NA"

SeqsUpTo(S, n) == UNION {[1..k -> S] : k \in 0..n}

\* paste(a, b, c, d, sep = ':'), as the pieces of the resulting string.
Paste4(a, b, c, d) == <<a, b, c, d>>

\* select(-cols)
DropNoCols(r, cols) == r

DropCols(r, cols) == [c \in (DOMAIN r) \ cols |-> r[c]]

\* R's ==: NA when either side is missing.
REq(a, b) == IF a = NA \/ b = NA THEN NA ELSE IF a = b THEN "TRUE" ELSE "FALSE"

\* The pairs <<i, j>> with x[i].V = y[j].V, in the order dplyr's joins give
\* their rows: by row of x, and for one row of x by row of y.
RECURSIVE JoinPairsFrom(_, _, _)
JoinPairsFrom(x, y, k) ==
    IF k > Len(x) * Len(y) THEN <<>>
    ELSE LET i == ((k - 1) \div Len(y)) + 1
             j == ((k - 1) % Len(y)) + 1
         IN (IF x[i].V = y[j].V THEN << <<i, j>> >> ELSE <<>>)
                \o JoinPairsFrom(x, y, k + 1)

JoinPairs(x, y) == JoinPairsFrom(x, y, 1)

\* The variants of the examples of the README.
Variants ==
    {[CHROM |-> "1", POS |-> "69081", REF |-> "G", ALT |-> "C"],
     [CHROM |-> "1", POS |-> "70001", REF |-> "G", ALT |-> "A"]}

VariantIds == {Paste4(v.CHROM, v.POS, v.REF, v.ALT) : v \in Variants}

GenePool == <<"OR4F5", "SAMD11", "NOC2L", "KLHL17", "PLEKHN1", "PERM1", "HES4", "ISG15">>

\* The eight columns of a reference file: those of the README's format
\* line, the two of the file names (mpc, pli) and one that is not named.
ReferenceColumns == {"V", "gene_symbol", "most_severe_consequence", "maf", "ld_indep",
                     "MPC", "pLI", "other"}

\* A reference file of at most n rows: any identifier of ids and any ld_indep
\* in each row, and the row's own gene symbol from GenePool, starting after
\* `skip`.  The other columns of the files travel as gene_symbol does.
ReferenceFiles(ids, n, skip) ==
    {[i \in 1..Len(c) |-> [V |-> c[i][1], gene_symbol |-> GenePool[skip + i],
                           most_severe_consequence |-> "5_prime_UTR_variant",
                           maf |-> "0.000189471",
                           ld_indep |-> c[i][2],
                           MPC |-> NA, pLI |-> NA, other |-> NA]] :
        c \in SeqsUpTo(ids \X {"True", "False"}, n)}

(***************************************************************************)
(* The "array" reference clean-up notebook                                  *)
(***************************************************************************)
FilterValues == {".", "hwe"}

\* A variant of the reference file that the annotation file does not hold.
UnannotatedId == Paste4("1", "70500", "T", "C")

QCAnnotationRows ==
    {[CHROM |-> v.CHROM, POS |-> v.POS, REF |-> v.REF, ALT |-> v.ALT, FILTER |-> f] :
        v \in Variants, f \in FilterValues}

\* mutate(V = paste(CHROM, POS, REF, ALT, sep=':')) %>% select(V, FILTER)
VFilter(df) ==
    [j \in 1..Len(df) |->
        [V |-> Paste4(df[j].CHROM, df[j].POS, df[j].REF, df[j].ALT),
         FILTER |-> df[j].FILTER]]

\* left_join(x, y, by='V'): every row of x, once per matching row of y, or once
\* with the columns of y missing.
RECURSIVE LeftJoinFrom(_, _, _)
LeftJoinFrom(x, y, i) ==
    IF i > Len(x) THEN <<>>
    ELSE LET hits == SelectSeq(y, LAMBDA r : r.V = x[i].V)
         IN (IF hits = <<>>
             THEN << x[i] @@ [FILTER |-> NA] >>
             ELSE [k \in 1..Len(hits) |-> x[i] @@ hits[k]])
                \o LeftJoinFrom(x, y, i + 1)

left_join(x, y) == LeftJoinFrom(x, y, 1)

\* filter(FILTER == '.'): the rows for which the comparison is TRUE.
filter_FILTER_or_missing(df) == SelectSeq(df, LAMBDA r : REq(r.FILTER, ".") # "FALSE")

filter_FILTER(df) == SelectSeq(df, LAMBDA r : REq(r.FILTER, ".") = "TRUE")

\* select(-FILTER)
select_not_FILTER(df) == [k \in 1..Len(df) |-> DropCols(df[k], {"FILTER"})]

QCInit ==
    /\ qc_pc = "read"
    /\ in_df \in ReferenceFiles(VariantIds \cup {UnannotatedId}, MaxQCRows, 0)
    /\ qc_annotation_df \in SeqsUpTo(QCAnnotationRows, MaxAnnot)
    /\ merged_df = <<>>
    /\ qc_out_f = <<>>

\* Cell 5.
MergeCell ==
    /\ qc_pc = "read"
    /\ merged_df' = left_join(in_df, VFilter(qc_annotation_df))
    /\ qc_pc' = "merged"
    /\ UNCHANGED <<in_df, qc_annotation_df, qc_out_f>>
    /\ UNCHANGED notQC

\* Cell 7.
QCWriteCell ==
    /\ qc_pc = "merged"
    /\ qc_out_f' = select_not_FILTER(filter_FILTER(merged_df))
    /\ qc_pc' = "written"
    /\ UNCHANGED <<in_df, qc_annotation_df, merged_df>>
    /\ UNCHANGED notQC

QCNext ==
    \/ MergeCell
    \/ QCWriteCell

QCIdle ==
    /\ qc_pc = "none"
    /\ in_df = <<>>
    /\ qc_annotation_df = <<>>
    /\ merged_df = <<>>
    /\ qc_out_f = <<>>

(***************************************************************************)
(* The combined array+exome reference notebook                              *)
(***************************************************************************)
AnnotationRows ==
    {[CHROM |-> v.CHROM, POS |-> v.POS, REF |-> v.REF, ALT |-> v.ALT,
      geno_data_source |-> g,
      CHROM_hg38 |-> w.CHROM, POS_hg38 |-> w.POS, REF_hg38 |-> w.REF,
      ALT_hg38 |-> w.ALT] :
        v \in Variants, w \in Variants, g \in {"array", "exome200k"}}

\* The indices of the rows of df, in order, whose column col is (R's ==) val;
\* with val missing, of all rows.
RECURSIVE IndicesWhere(_, _, _, _)
IndicesWhere(df, col, val, i) ==
    IF i > Len(df) THEN <<>>
    ELSE (IF val = NA \/ REq(df[i][col], val) = "TRUE" THEN <<i>> ELSE <<>>)
            \o IndicesWhere(df, col, val, i + 1)

\* filter(geno_data_source == 'exome200k'), as the rows of annotation_df kept.
filter_any_source(df) == IndicesWhere(df, "geno_data_source", NA, 1)

filter_exome200k(df) == IndicesWhere(df, "geno_data_source", "exome200k", 1)

\* mutate(V = paste(CHROM_hg38, ...)) %>% select(V, CHROM, POS, REF, ALT)
Hg38Keyed(a) ==
    [V |-> Paste4(a.CHROM_hg38, a.POS_hg38, a.REF_hg38, a.ALT_hg38),
     CHROM |-> a.CHROM, POS |-> a.POS, REF |-> a.REF, ALT |-> a.ALT]

\* mutate(V = paste(CHROM, POS, REF, ALT, sep=':'), ld_indep = 'False')
mutate_keep_ld_indep(r) ==
    [r EXCEPT !.V = Paste4(r.CHROM, r.POS, r.REF, r.ALT)]

mutate_hg19(r) ==
    [r EXCEPT !.V = Paste4(r.CHROM, r.POS, r.REF, r.ALT), !.ld_indep = "False"]

\* Lines 84-98, each row with the rows it comes from.
ExomeHg19(annot, exome) ==
    LET kept == filter_exome200k(annot)
        x == [k \in 1..Len(kept) |-> Hg38Keyed(annot[kept[k]])]
        pairs == JoinPairs(x, exome)
    IN [n \in 1..Len(pairs) |->
          [row |-> DropCols(mutate_hg19(x[pairs[n][1]] @@ exome[pairs[n][2]]),
                            {"CHROM", "POS", "REF", "ALT"}),
           src |-> [annot |-> kept[pairs[n][1]], exome |-> pairs[n][2]]]]

\* A stable sort of tagged rows by sort_order, ascending (dir = 1) or
\* descending (dir = -1).
RECURSIVE InsertBy(_, _, _)
InsertBy(sorted, e, dir) ==
    IF sorted = <<>> THEN <<e>>
    ELSE IF dir * e.row.sort_order < dir * sorted[Len(sorted)].row.sort_order
         THEN Append(InsertBy(SubSeq(sorted, 1, Len(sorted) - 1), e, dir),
                     sorted[Len(sorted)])
         ELSE Append(sorted, e)

RECURSIVE SortBy(_, _)
SortBy(s, dir) ==
    IF s = <<>> THEN <<>>
    ELSE InsertBy(SortBy(SubSeq(s, 1, Len(s) - 1), dir), s[Len(s)], dir)

\* arrange(sort_order)
arrange_desc(tagged) == SortBy(tagged, -1)

arrange(tagged) == SortBy(tagged, 1)

\* mutate(V = paste(CHROM, POS, REF, ALT, sep=':'), sort_order = 1:n()) %>%
\* select(sort_order, V)
SortKeyedHg38(annot) ==
    [i \in 1..Len(annot) |->
        [sort_order |-> i,
         V |-> Paste4(annot[i].CHROM_hg38, annot[i].POS_hg38, annot[i].REF_hg38,
                      annot[i].ALT_hg38)]]

SortKeyed(annot) ==
    [i \in 1..Len(annot) |->
        [sort_order |-> i,
         V |-> Paste4(annot[i].CHROM, annot[i].POS, annot[i].REF, annot[i].ALT)]]

bind_rows(a, b) == a \o b

\* Lines 108-113, each row with the rows it comes from.
Combined(annot, exome_hg19, exome_src, array) ==
    LET x == SortKeyed(annot)
        y == bind_rows(exome_hg19, array)
        pairs == JoinPairs(x, y)
        joined == [n \in 1..Len(pairs) |->
                     LET i == pairs[n][1]
                         k == pairs[n][2]
                     IN [row |-> x[i] @@ y[k],
                         src |-> IF k <= Len(exome_hg19)
                                 THEN [sort_order |-> i, origin |-> "exome",
                                       row |-> exome_src[k].exome]
                                 ELSE [sort_order |-> i, origin |-> "array",
                                       row |-> k - Len(exome_hg19)]]]
        sorted == arrange(joined)
    IN [n \in 1..Len(sorted) |->
          [row |-> DropCols(sorted[n].row, {"sort_order"}), src |-> sorted[n].src]]

Rows(tagged) == [n \in 1..Len(tagged) |-> tagged[n].row]
Srcs(tagged) == [n \in 1..Len(tagged) |-> tagged[n].src]

\* The files read: at most MaxRows reference rows in all.
CombinedInit ==
    /\ cmb_pc = "read"
    /\ annotation_df \in SeqsUpTo(AnnotationRows, MaxAnnot)
    /\ in_array_df \in ReferenceFiles(VariantIds, MaxRows, 0)
    /\ in_exome_df \in ReferenceFiles(VariantIds, MaxRows - Len(in_array_df), MaxRows)
    /\ exome_hg19_df = <<>>
    /\ exome_hg19_src = <<>>
    /\ combined_df = <<>>
    /\ combined_src = <<>>
    /\ out_f = <<>>

\* Lines 84-98.
ExomeCell ==
    /\ cmb_pc = "read"
    /\ exome_hg19_df' = Rows(ExomeHg19(annotation_df, in_exome_df))
    /\ exome_hg19_src' = Srcs(ExomeHg19(annotation_df, in_exome_df))
    /\ cmb_pc' = "exome_hg19"
    /\ UNCHANGED <<in_array_df, in_exome_df, annotation_df, combined_df, combined_src, out_f>>
    /\ UNCHANGED notCombined

\* Lines 108-113.
CombineCell ==
    /\ cmb_pc = "exome_hg19"
    /\ combined_df' = Rows(Combined(annotation_df, exome_hg19_df, exome_hg19_src, in_array_df))
    /\ combined_src' = Srcs(Combined(annotation_df, exome_hg19_df, exome_hg19_src, in_array_df))
    /\ cmb_pc' = "combined"
    /\ UNCHANGED <<in_array_df, in_exome_df, annotation_df, exome_hg19_df, exome_hg19_src, out_f>>
    /\ UNCHANGED notCombined

\* Lines 174-175.
WriteCell ==
    /\ cmb_pc = "combined"
    /\ out_f' = combined_df
    /\ cmb_pc' = "written"
    /\ UNCHANGED <<in_array_df, in_exome_df, annotation_df, exome_hg19_df, exome_hg19_src,
                   combined_df, combined_src>>
    /\ UNCHANGED notCombined

CombinedNext ==
    \/ ExomeCell
    \/ CombineCell
    \/ WriteCell

CombinedIdle ==
    /\ cmb_pc = "none"
    /\ in_array_df = <<>>
    /\ in_exome_df = <<>>
    /\ annotation_df = <<>>
    /\ exome_hg19_df = <<>>
    /\ exome_hg19_src = <<>>
    /\ combined_df = <<>>
    /\ combined_src = <<>>
    /\ out_f = <<>>

(***************************************************************************)
(* mrp.py: the command line and the selection of variants, as the help      *)
(* text and the README describe them.                                       *)
(***************************************************************************)
\* --p_value {farebrother,davies,imhof} [{farebrother,davies,imhof} ...]
PValueMethods == {"farebrother", "davies", "imhof"}

\* --variants {pcv,pav,ptv,all} [{pcv,pav,ptv,all} ...]
VariantChoices == <<"pcv", "pav", "ptv", "all">>
VariantSets == {VariantChoices[i] : i \in 1..Len(VariantChoices)}

\* "Variant groupings" of the README.
ptv == {"frameshift_variant", "splice_acceptor_variant", "splice_donor_variant",
        "stop_gained", "start_lost", "stop_lost"}
pavWithStopGained ==
    {"protein_altering_variant", "inframe_deletion", "inframe_insertion",
     "splice_region_variant", "start_retained_variant", "stop_retained_variant",
     "missense_variant", "stop_gained"}

pav == {"protein_altering_variant", "inframe_deletion", "inframe_insertion",
        "splice_region_variant", "start_retained_variant", "stop_retained_variant",
        "missense_variant"}
proximal_coding == {"synonymous_variant", "5_prime_UTR_variant", "3_prime_UTR_variant",
                    "coding_sequence_variant", "incomplete_terminal_codon_variant",
                    "TF_binding_site_variant"}
intron == {"regulatory_region_variant", "intron_variant", "intergenic_variant",
           "downstream_gene_variant", "mature_miRNA_variant",
           "non_coding_transcript_exon_variant", "upstream_gene_variant", "NA",
           "NMD_transcript_variant"}

\* The consequences the metadata of the model holds: one of each group, and
\* one that no group lists.
ConsequencePool == {"stop_gained", "missense_variant", "synonymous_variant",
                    "intron_variant", "TFBS_ablation"}

\* The gene of variant i of the metadata: two variants a gene.
GeneOf(i) == GenePool[(i + 1) \div 2]

\* The consequences a variant set keeps ("cascading down").
KeptConsequencesNoCascade(vs) ==
    CASE vs = "ptv" -> ptv
      [] vs = "pav" -> pav
      [] vs = "pcv" -> proximal_coding
      [] vs = "all" -> ptv \cup pav \cup proximal_coding \cup intron

KeptConsequences(vs) ==
    CASE vs = "ptv" -> ptv
      [] vs = "pav" -> ptv \cup pav
      [] vs = "pcv" -> ptv \cup pav \cup proximal_coding
      [] vs = "all" -> ptv \cup pav \cup proximal_coding \cup intron

\* The variants of the metadata that the analysis of a variant set keeps.
FilterCategory(meta, vs) ==
    {i \in DOMAIN meta : meta[i] \in KeptConsequences(vs)}

\* argparse on --p_value (absent, or followed by zero or more methods): with
\* one method at least, the methods; absent, none; an error otherwise.
ParsePValueOptional(pv) == [error |-> FALSE, methods |-> {pv.methods[k] : k \in 1..Len(pv.methods)}]

ParsePValue(pv) ==
    IF pv.invoked /\ pv.methods = <<>>
    THEN [error |-> TRUE, methods |-> {}]
    ELSE [error |-> FALSE, methods |-> {pv.methods[k] : k \in 1..Len(pv.methods)}]

\* --variants: the sets given, (default: ptv), in the order of the choices.
SelectedVariantSets(v) ==
    LET chosen == IF v = {} THEN {"ptv"} ELSE v
    IN SelectSeq(VariantChoices, LAMBDA c : c \in chosen)

\* Floats are counted in ten-thousandths: 0.0005 is 5 and 1 is Unit.
Unit == 10000
DefaultMafThresh == 100
DefaultSeThresh == 2000
DefaultPriorOdds == 5

\* The options that "can run both" or "can run multiple", in the order of
\* the usage line, and --prior_odds.
GridOptions == <<"R_study", "R_var", "M", "sigma_m_types", "variants",
                 "maf_thresh", "se_thresh">>
GridOptionSet == {GridOptions[k] : k \in 1..Len(GridOptions)}

\* The values an option takes in the model, in a fixed order: the choices
\* of the usage line and, for the floats, the default, another value and a
\* value above 1 (--se_thresh 100 is the README's example).
Choices(o) ==
    CASE o = "R_study" -> <<"independent", "similar">>
      [] o = "R_var" -> <<"independent", "similar">>
      [] o = "M" -> <<"variant", "gene">>
      [] o = "sigma_m_types" -> <<"sigma_m_mpc_pli", "sigma_m_var", "sigma_m_1", "sigma_m_005">>
      [] o = "variants" -> VariantChoices
      [] o = "maf_thresh" -> <<DefaultMafThresh, 5 * DefaultMafThresh, Unit + Unit \div 2>>
      [] o = "se_thresh" -> <<DefaultSeThresh, 100 * Unit>>
      [] o = "prior_odds" -> <<DefaultPriorOdds, 2 * Unit>>

Default(o) ==
    CASE o = "R_study" -> "similar"
      [] o = "R_var" -> "independent"
      [] o = "M" -> "gene"
      [] o = "sigma_m_types" -> "sigma_m_mpc_pli"
      [] o = "variants" -> "ptv"
      [] o = "maf_thresh" -> DefaultMafThresh
      [] o = "se_thresh" -> DefaultSeThresh
      [] o = "prior_odds" -> DefaultPriorOdds

\* The values of an option that the run uses: those given, or the default.
Selected(a, o) ==
    LET chosen == IF a[o] = {} THEN {Default(o)} ELSE a[o]
    IN IF o = "variants" THEN SelectedVariantSets(a[o])
       ELSE SelectSeq(Choices(o), LAMBDA c : c \in chosen)

\* A command line without any option.
NoOption ==
    [p_value |-> [invoked |-> FALSE, methods |-> <<>>],
     R_study |-> {}, R_var |-> {}, M |-> {}, sigma_m_types |-> {}, variants |-> {},
     maf_thresh |-> {}, se_thresh |-> {}, prior_odds |-> {}]

\* An option on the command line, with the values that follow it.
Occurrences ==
    {[option |-> o, values |-> v] :
        o \in {"p_value"}, v \in {<<>>, <<"farebrother">>}}
    \cup UNION {{[option |-> o, values |-> v] :
                    v \in (SUBSET {Choices(o)[k] : k \in 1..Len(Choices(o))}) \ {{}}} :
                o \in GridOptionSet \cup {"prior_odds"}}

\* argparse: an option given again replaces what was stored for it.
RECURSIVE ParseArgv(_, _)
ParseArgv(argv, a) ==
    IF argv = <<>> THEN a
    ELSE LET occ == Head(argv)
             stored == IF occ.option = "p_value"
                       THEN [invoked |-> TRUE, methods |-> occ.values]
                       ELSE occ.values
         IN ParseArgv(Tail(argv), [a EXCEPT ![occ.option] = stored])

\* "must be valid floats between 0 and 1"
InUnitInterval(x) == 0 <= x /\ x <= Unit

\* The check of the floats of the command line. --se_thresh takes values
\* above 1: the README runs mrp.py with --se_thresh 100 and the outputs
\* submit_jobs.sh looks for were made with 1e+18.
ThresholdsAccepted(a) ==
    /\ \A x \in a.maf_thresh : InUnitInterval(x)
    /\ \A x \in a.prior_odds : InUnitInterval(x)

\* One more loop inside the loops so far: every combination, with each
\* value of the option.
ExtendFirstOnly(combos, o, vals) ==
    [k \in 1..Len(combos) |-> [combos[k] EXCEPT ![o] = vals[1]]]

Extend(combos, o, vals) ==
    [k \in 1..(Len(combos) * Len(vals)) |->
        [combos[((k - 1) \div Len(vals)) + 1] EXCEPT ![o] = vals[((k - 1) % Len(vals)) + 1]]]

\* The analyses of a run: the nested loops over the values of each option.
RECURSIVE ParameterGridFrom(_, _, _)
ParameterGridFrom(a, k, combos) ==
    IF k > Len(GridOptions) THEN combos
    ELSE ParameterGridFrom(a, k + 1, Extend(combos, GridOptions[k], Selected(a, GridOptions[k])))

ParameterGrid(a) ==
    ParameterGridFrom(a, 1, <<[o \in GridOptionSet |-> Default(o)]>>)

\* The default spread of each group of consequences.
SigmaPTV == 2000
SigmaPAV == 500
SigmaPCV == 300
SigmaIntron == 200

\* set_sigmas: the spread of a variant is that of the group of its
\* consequence; a variant of no group has none.
HasGroup(c) == c \in ptv \cup pav \cup proximal_coding \cup intron

SigmaOf(c) ==
    CASE c \in ptv -> SigmaPTV
      [] c \in pav -> SigmaPAV
      [] c \in proximal_coding -> SigmaPCV
      [] c \in intron -> SigmaIntron

SetSigmasPavForPcv(meta) ==
    [i \in {v \in DOMAIN meta : HasGroup(meta[v])} |->
        IF meta[i] \in proximal_coding THEN SigmaPAV ELSE SigmaOf(meta[i])]

SetSigmas(meta) ==
    [i \in {v \in DOMAIN meta : HasGroup(meta[v])} |-> SigmaOf(meta[i])]

\* A run with --p_value and --variants only.
MRPInit ==
    /\ mrp_pc = "start"
    /\ \E pv \in {[invoked |-> FALSE, methods |-> <<>>]}
                 \cup [invoked : {TRUE}, methods : SeqsUpTo(PValueMethods, MaxMethods)],
          v \in SUBSET VariantSets :
            args = [NoOption EXCEPT !.p_value = pv, !.variants = v]
    /\ metadata \in [1..MaxVariants -> ConsequencePool]
    /\ sigma_m = <<>>
    /\ todo = <<>>
    /\ analysed = <<>>
    /\ analyses = <<>>
    /\ results = {}

\* A run with a few options, of any kind, over a metadata file of PTVs.
MRPGridInit ==
    /\ mrp_pc = "start"
    /\ \E argv \in SeqsUpTo(Occurrences, MaxOptionsGiven) : args = ParseArgv(argv, NoOption)
    /\ metadata = [i \in 1..MaxVariants |-> "stop_gained"]
    /\ sigma_m = <<>>
    /\ todo = <<>>
    /\ analysed = <<>>
    /\ analyses = <<>>
    /\ results = {}

\* The parser rejects the command line and the program exits.
ParseError ==
    /\ mrp_pc = "start"
    /\ ParsePValue(args.p_value).error \/ ~ThresholdsAccepted(args)
    /\ mrp_pc' = "error"
    /\ UNCHANGED <<args, metadata, sigma_m, todo, analysed, analyses, results>>
    /\ UNCHANGED notMRP

\* The command line is accepted: the metadata gets its spreads and the
\* analyses of the run are laid out.
ParseOk ==
    /\ mrp_pc = "start"
    /\ ~ParsePValue(args.p_value).error
    /\ ThresholdsAccepted(args)
    /\ sigma_m' = SetSigmas(metadata)
    /\ todo' = ParameterGrid(args)
    /\ mrp_pc' = "running"
    /\ UNCHANGED <<args, metadata, analysed, analyses, results>>
    /\ UNCHANGED notMRP

\* One analysis: a Bayes factor for every gene with a variant kept, and a
\* p-value by each method asked for.
Analyse ==
    /\ mrp_pc = "running"
    /\ todo # <<>>
    /\ LET vs == Head(todo).variants
           kept == FilterCategory(metadata, vs) \cap DOMAIN sigma_m
       IN /\ analysed' = (vs :> kept) @@ analysed
          /\ results' = results \cup
                {[variants |-> vs, gene |-> GeneOf(i), BF |-> TRUE,
                  p_value |-> ParsePValue(args.p_value).methods] : i \in kept}
    /\ analyses' = Append(analyses, Head(todo))
    /\ todo' = Tail(todo)
    /\ UNCHANGED <<mrp_pc, args, metadata, sigma_m>>
    /\ UNCHANGED notMRP

Finish ==
    /\ mrp_pc = "running"
    /\ todo = <<>>
    /\ mrp_pc' = "done"
    /\ UNCHANGED <<args, metadata, sigma_m, todo, analysed, analyses, results>>
    /\ UNCHANGED notMRP

MRPNext ==
    \/ ParseError
    \/ ParseOk
    \/ Analyse
    \/ Finish

MRPIdle ==
    /\ mrp_pc = "none"
    /\ args = <<>>
    /\ metadata = <<>>
    /\ sigma_m = <<>>
    /\ todo = <<>>
    /\ analysed = <<>>
    /\ analyses = <<>>
    /\ results = {}

(***************************************************************************)
(* process_phenotypes.py, as the README of aux describes it.                *)
(***************************************************************************)
\* The phenotype codes the MatrixTable may hold.
PhenotypePool == {StemPool[k] : k \in 1..MaxPhenotypes}

\* "aggregates phenotype codes from the MatrixTable columns and sorts them"
SortedCodes(codes) == SelectSeq(StemPool, LAMBDA c : c \in codes)

\* The subset of the sorted phenotypes between the two indices: positions
\* are counted from 0 and the end index is not included.
PhRange(sorted, a, b) ==
    SubSeq(sorted, a + 1, IF b < Len(sorted) THEN b ELSE Len(sorted))

\* The output file of a phenotype: named after its code.
PhOutputFile(code) == <<DIRECTORY, code, GENEBASS_SUFFIX>>

\* "If a file for a specific phenotype already exists in the output directory"
PhFileExistsIfOwn(fs, code) == fs[code] = "run"

PhFileExists(fs, code) == fs[code] # "none"

PhenoInit ==
    /\ ph_pc = "start"
    /\ ph_codes \in SUBSET PhenotypePool
    /\ start_index \in 0..MaxPhenotypes
    /\ end_index \in 0..MaxPhenotypes
    /\ ph_fs \in [PhenotypePool -> {"none", "earlier"}]
    /\ ph_todo = <<>>
    /\ ph_tested = <<>>
    /\ ph_exported = <<>>
    /\ ph_env = 0

PhStart ==
    /\ ph_pc = "start"
    /\ ph_todo' = PhRange(SortedCodes(ph_codes), start_index, end_index)
    /\ ph_pc' = "loop"
    /\ UNCHANGED <<ph_codes, start_index, end_index, ph_fs, ph_tested, ph_exported, ph_env>>
    /\ UNCHANGED notPheno

PhTest ==
    /\ ph_pc = "loop"
    /\ ph_todo # <<>>
    /\ ph_tested' = Append(ph_tested, [code |-> Head(ph_todo), file |-> ph_fs[Head(ph_todo)]])
    /\ ph_pc' = IF PhFileExists(ph_fs, Head(ph_todo)) THEN "skip" ELSE "export"
    /\ UNCHANGED <<ph_codes, start_index, end_index, ph_todo, ph_fs, ph_exported, ph_env>>
    /\ UNCHANGED notPheno

PhSkip ==
    /\ ph_pc = "skip"
    /\ ph_todo' = Tail(ph_todo)
    /\ ph_pc' = "loop"
    /\ UNCHANGED <<ph_codes, start_index, end_index, ph_fs, ph_tested, ph_exported, ph_env>>
    /\ UNCHANGED notPheno

\* The table of the phenotype is exported to its file.
PhExport ==
    /\ ph_pc = "export"
    /\ ph_exported' = Append(ph_exported, [code |-> Head(ph_todo), file |-> ph_fs[Head(ph_todo)]])
    /\ ph_fs' = [ph_fs EXCEPT ![Head(ph_todo)] = "run"]
    /\ ph_todo' = Tail(ph_todo)
    /\ ph_pc' = "loop"
    /\ UNCHANGED <<ph_codes, start_index, end_index, ph_tested, ph_env>>
    /\ UNCHANGED notPheno

PhFinish ==
    /\ ph_pc = "loop"
    /\ ph_todo = <<>>
    /\ ph_pc' = "done"
    /\ UNCHANGED <<ph_codes, start_index, end_index, ph_todo, ph_fs, ph_tested, ph_exported, ph_env>>
    /\ UNCHANGED notPheno

\* Someone else (a run over another range) writes a file that was missing.
PhExternalCreate ==
    /\ ph_pc \in {"loop", "export", "skip"}
    /\ ph_env < MaxEnvEvents
    /\ \E c \in PhenotypePool :
         /\ ph_fs[c] = "none"
         /\ ph_fs' = [ph_fs EXCEPT ![c] = "other"]
    /\ ph_env' = ph_env + 1
    /\ UNCHANGED <<ph_pc, ph_codes, start_index, end_index, ph_todo, ph_tested, ph_exported>>
    /\ UNCHANGED notPheno

PhenoNext ==
    \/ PhStart
    \/ PhTest
    \/ PhSkip
    \/ PhExport
    \/ PhFinish
    \/ PhExternalCreate

PhenoIdle ==
    /\ ph_pc = "none"
    /\ ph_codes = {}
    /\ start_index = 0
    /\ end_index = 0
    /\ ph_todo = <<>>
    /\ ph_fs = <<>>
    /\ ph_tested = <<>>
    /\ ph_exported = <<>>
    /\ ph_env = 0

(***************************************************************************)
(* The specifications: each program runs on its own.                        *)
(***************************************************************************)
SubmitSpecInit == SubmitInit /\ QCIdle /\ CombinedIdle /\ MRPIdle /\ PhenoIdle
QCSpecInit == QCInit /\ SubmitIdle /\ CombinedIdle /\ MRPIdle /\ PhenoIdle
CombinedSpecInit == CombinedInit /\ SubmitIdle /\ QCIdle /\ MRPIdle /\ PhenoIdle
MRPSpecInit == MRPInit /\ SubmitIdle /\ QCIdle /\ CombinedIdle /\ PhenoIdle
MRPGridSpecInit == MRPGridInit /\ SubmitIdle /\ QCIdle /\ CombinedIdle /\ PhenoIdle
SubmitFairSpecInit == SubmitTwoFilesInit /\ QCIdle /\ CombinedIdle /\ MRPIdle /\ PhenoIdle
SubmitRunsSpecInit == SubmitRunsInit /\ QCIdle /\ CombinedIdle /\ MRPIdle /\ PhenoIdle
PhenoSpecInit == PhenoInit /\ SubmitIdle /\ QCIdle /\ CombinedIdle /\ MRPIdle

SpecSubmit == SubmitSpecInit /\ [][SubmitNext]_vars
SpecQC == QCSpecInit /\ [][QCNext]_vars
SpecCombined == CombinedSpecInit /\ [][CombinedNext]_vars
SpecMRP == MRPSpecInit /\ [][MRPNext]_vars
SpecMRPGrid == MRPGridSpecInit /\ [][MRPNext]_vars
SpecSubmitFair == SubmitFairSpecInit /\ [][SubmitNext]_vars /\ WF_vars(ScriptStep)
SpecSubmitRuns == SubmitRunsSpecInit /\ [][SubmitNext]_vars
SpecPheno == PhenoSpecInit /\ [][PhenoNext]_vars

(***************************************************************************)
(* Claims about submit_jobs.sh                                              *)
(***************************************************************************)
\* The visits of the current run whose branch has been executed.
Decided == IF pc \in {"submit", "skip"} THEN 1..(Len(visited) - 1) ELSE 1..Len(visited)

\* The sbatch invocations of the current run made for visit i.
CallsOfVisit(i) ==
    {k \in 1..Len(sbatchCalls) : sbatchCalls[k].run = runs /\ sbatchCalls[k].visit = i}

\* The genebass files of DIRECTORY, as the paths the loop is meant to visit.
GenebassPaths == {Path(DIRECTORY, n) : n \in {m \in inDir : Matches(m)}}

\* C1: for every pair visited, sbatch is invoked (once) for the pair if and
\* only if its output path was not a regular file when the test of line 24
\* was evaluated; a pair whose output file existed gets no invocation.  The
\* branch taken is the one the test chose, whatever happens to the path
\* afterwards.
C1_SubmitIffOutputMissing ==
    /\ pc = "submit" => visited[Len(visited)].kind # "file"
    /\ pc = "skip" => visited[Len(visited)].kind = "file"
    /\ \A i \in Decided :
         Cardinality(CallsOfVisit(i)) = IF visited[i].kind # "file" THEN 1 ELSE 0
    /\ \A k \in 1..Len(sbatchCalls) :
         sbatchCalls[k].run = runs => sbatchCalls[k].visit \in Decided

\* A finished run that skipped one pair, submitted a pair whose output path
\* was a directory, and submitted a pair whose output path did not exist.
C1_Witness ==
    /\ pc = "done"
    /\ \E i, j, k \in Decided :
         /\ visited[i].kind = "file" /\ CallsOfVisit(i) = {}
         /\ visited[j].kind = "dir" /\ CallsOfVisit(j) # {}
         /\ visited[k].kind = "none" /\ CallsOfVisit(k) # {}

\* C2: a finished run has evaluated the test exactly once for every pair of a
\* genebass file of DIRECTORY and an analysis type, and for nothing else: the
\* number of tests is three times the number of matching files.
C2_EachPairCheckedOnce ==
    pc = "done" =>
        /\ Len(visited) = Len(TYPES_OF_ANALYSIS) * Cardinality(GenebassPaths)
        /\ \A i \in 1..Len(visited) : visited[i].file \in GenebassPaths
        /\ \A f \in GenebassPaths, t \in Types :
             Cardinality({i \in 1..Len(visited) :
                            visited[i].file = f /\ visited[i].type = t}) = 1

\* C3: every sbatch invocation runs load_mrp.py with exactly the FILE and the
\* TYPE of the visit it was made for, a visit that found its output missing,
\* and is named <base name of FILE without the suffix>_<TYPE>.
C3_JobCarriesItsPair ==
    \A k \in 1..Len(sbatchCalls) :
        sbatchCalls[k].run = runs =>
            LET v == visited[sbatchCalls[k].visit]
            IN /\ WrapArgv(sbatchCalls[k].cmd.wrap)
                    = <<"python load_mrp.py '", v.file, v.type>>
               /\ sbatchCalls[k].cmd.J = <<v.file.stem, "_", v.type>>
               /\ v.kind # "file"

\* A finished run over two files that submitted the last type of the second file
\* after skipping a pair of the first.
C3_Witness ==
    /\ pc = "done"
    /\ Len(files) >= 2
    /\ \E k \in 1..Len(sbatchCalls) :
         /\ visited[sbatchCalls[k].visit].file = files[2]
         /\ visited[sbatchCalls[k].visit].type = TYPES_OF_ANALYSIS[3]
    /\ \E i \in Decided : visited[i].file = files[1] /\ CallsOfVisit(i) = {}

\* C4: the console holds, for every pair visited, the line "Checking for" and
\* after it exactly one status line: "Submitting job for FILE with type TYPE"
\* when sbatch was invoked for the pair, "Output file already exists: ...,
\* skipping job submission." when it was not.
C4_MessageMatchesAction ==
    /\ Len(console) = Len(visited) + Cardinality(Decided)
    /\ \A i \in 1..Len(visited) : console[2 * i - 1] = MsgChecking(visited[i].out)
    /\ \A i \in Decided :
         IF CallsOfVisit(i) # {}
         THEN console[2 * i] = MsgSubmitting(visited[i].file, visited[i].type)
         ELSE console[2 * i] = MsgExists(visited[i].out)

\* A finished run that printed both kinds of status line.
C4_Witness ==
    /\ pc = "done"
    /\ \E i, j \in Decided :
         /\ console[2 * i].msg = "Submitting job for" /\ CallsOfVisit(i) # {}
         /\ console[2 * j].msg = "Output file already exists" /\ CallsOfVisit(j) = {}

\* C15: the output path tested for a pair is OUTPUT_DIRECTORY, 'study1_',
\* the base name of the file without .genebass.tsv.gz, '.genebass.tsv.gz_',
\* the type and '_gene_maf_0.01_se_1e+18.tsv.gz', and nothing else: two
\* visits of the same base name and type test the same path.
C15_OutputFileFormula ==
    \A i \in 1..Len(visited) :
        /\ visited[i].out = <<"/scratch/groups/mrivas/mrpout_genebass/", "study1_",
                              visited[i].file.stem, ".genebass.tsv.gz_", visited[i].type,
                              "_gene_maf_0.01_se_1e+18.tsv.gz">>
        /\ console[2 * i - 1] = [msg |-> "Checking for", out |-> visited[i].out]

\* The pair (100010.genebass.tsv.gz, missenseonly) was visited.
C15_Witness ==
    \E i \in 1..Len(visited) :
        /\ visited[i].file = [dir |-> "/scratch/groups/mrivas/genebassout/",
                              stem |-> "100010", ext |-> ".genebass.tsv.gz"]
        /\ visited[i].type = "missenseonly"
        /\ visited[i].out[3] = "100010"

\* The (file, type) pair a call of sbatch is for.
PairOfCall(c) == <<WrapArgv(sbatchCalls[c].cmd.wrap)[2], WrapArgv(sbatchCalls[c].cmd.wrap)[3]>>

\* C18: over all the runs, no two calls of sbatch are for the same (file,
\* type) pair; in particular a run does not submit a pair whose job, queued
\* by an earlier run, is still pending or running.
C18_AtMostOneJobPerPair ==
    /\ \A a, b \in 1..Len(sbatchCalls) :
         (sbatchCalls[a].accepted /\ sbatchCalls[b].accepted /\ PairOfCall(a) = PairOfCall(b))
            => a = b
    /\ pc = "submit" => \A j \in queue : PairOfCall(j) # <<CurFile, CurType>>

\* C19: with no name of DIRECTORY ending in .genebass.tsv.gz, a run tests
\* no pair and calls sbatch for none.
C19_NoMatchingFileNoJob ==
    (\A n \in inDir : n.ext # ".genebass.tsv.gz") =>
        /\ visited = <<>>
        /\ sbatchCalls = <<>>

\* A call of sbatch of the current run was rejected.
RejectedInRun ==
    \E k \in 1..Len(sbatchCalls) : sbatchCalls[k].run = runs /\ ~sbatchCalls[k].accepted

\* The run is over and has tested every pair of a word of the loop and a
\* type, and called sbatch for each one whose output was missing.
RunComplete ==
    /\ pc = "done"
    /\ \A i \in 1..Len(files), t \in Types :
         \E v \in 1..Len(visited) :
            /\ visited[v].file = files[i]
            /\ visited[v].type = t
            /\ visited[v].kind # "file" => CallsOfVisit(v) # {}

\* C20: once a call of sbatch has failed, the run still goes on to its end:
\* it tests every remaining pair, calls sbatch for those whose output is
\* missing, and terminates.
C20_FailedSubmissionDoesNotStopRun == RejectedInRun ~> RunComplete

\* A finished run whose first call of sbatch was rejected and that made an
\* accepted call for a later pair.
C20_Witness ==
    /\ RunComplete
    /\ Len(sbatchCalls) >= 2
    /\ ~sbatchCalls[1].accepted
    /\ \E k \in 2..Len(sbatchCalls) :
         sbatchCalls[k].accepted /\ sbatchCalls[k].visit > sbatchCalls[1].visit

(***************************************************************************)
(* Claims about the "array" reference clean-up notebook                     *)
(***************************************************************************)
\* The annotation file gives variant v the FILTER value f in some row.
AnnotatedAs(v, f) ==
    \E j \in 1..Len(qc_annotation_df) :
        /\ <<qc_annotation_df[j].CHROM, qc_annotation_df[j].POS,
             qc_annotation_df[j].REF, qc_annotation_df[j].ALT>> = v
        /\ qc_annotation_df[j].FILTER = f

Passes(r) == AnnotatedAs(r.V, ".")

AnnotationIdsUnique ==
    \A i, j \in 1..Len(qc_annotation_df) :
        DropCols(qc_annotation_df[i], {"FILTER"}) = DropCols(qc_annotation_df[j], {"FILTER"})
            => i = j

\* C5: the rows written are exactly the rows of the reference file whose V has
\* FILTER '.' in the annotation file, in the order of the reference file: a
\* row whose V has only other FILTER values, or no annotation row at all, is
\* not written, and a written row is the input row itself, with the input's
\* columns and no FILTER column.  When no variant occurs twice in the
\* annotation file each such row is written once.
C5_WritesRowsThatPass ==
    qc_pc = "written" =>
        /\ \A k \in 1..Len(qc_out_f) :
             \E i \in 1..Len(in_df) : qc_out_f[k] = in_df[i] /\ Passes(in_df[i])
        /\ \A i \in 1..Len(in_df) :
             Passes(in_df[i]) <=> \E k \in 1..Len(qc_out_f) : qc_out_f[k] = in_df[i]
        /\ \A k, l \in 1..Len(qc_out_f) :
             k < l => \E i, j \in 1..Len(in_df) :
                         i <= j /\ qc_out_f[k] = in_df[i] /\ qc_out_f[l] = in_df[j]
        /\ AnnotationIdsUnique => qc_out_f = SelectSeq(in_df, Passes)

\* A written file holding one row, of a reference file that also held a row
\* with another FILTER value and a row with no annotation.
C5_Witness ==
    /\ qc_pc = "written"
    /\ qc_out_f # <<>>
    /\ \E i, j \in 1..Len(in_df) :
         /\ AnnotatedAs(in_df[i].V, "hwe") /\ ~Passes(in_df[i])
         /\ \A f \in FilterValues : ~AnnotatedAs(in_df[j].V, f)
         /\ \A k \in 1..Len(qc_out_f) : qc_out_f[k] # in_df[i] /\ qc_out_f[k] # in_df[j]

(***************************************************************************)
(* Claims about the combined array+exome reference notebook                 *)
(***************************************************************************)
CombinedMade == cmb_pc \in {"combined", "written"}

\* C6: in the combined dataset (and in the file written from it) every row
\* that comes from the exome input has ld_indep 'False' and every row that
\* comes from the array input has the ld_indep of its array row; so a row
\* with ld_indep 'True' comes from the array input.
C6_LdIndepOnlyFromArray ==
    /\ CombinedMade =>
         \A n \in 1..Len(combined_df) :
            /\ combined_src[n].origin = "exome" => combined_df[n].ld_indep = "False"
            /\ combined_src[n].origin = "array" =>
                 combined_df[n].ld_indep = in_array_df[combined_src[n].row].ld_indep
            /\ combined_df[n].ld_indep = "True" => combined_src[n].origin = "array"
    /\ cmb_pc = "written" => out_f = combined_df

\* A written dataset with an exome row whose input said 'True' and an array
\* row that kept its 'True'.
C6_Witness ==
    /\ cmb_pc = "written"
    /\ \E m, n \in 1..Len(out_f) :
         /\ combined_src[m].origin = "exome"
         /\ in_exome_df[combined_src[m].row].ld_indep = "True"
         /\ combined_src[n].origin = "array"
         /\ out_f[n].ld_indep = "True"

\* An annotation row and an exome input row that the exome cell joins.
ExomeMatch(i, j) ==
    /\ annotation_df[i].geno_data_source = "exome200k"
    /\ in_exome_df[j].V = <<annotation_df[i].CHROM_hg38, annotation_df[i].POS_hg38,
                            annotation_df[i].REF_hg38, annotation_df[i].ALT_hg38>>

\* C7: every row of exome_hg19_df comes from an exome input row whose V is the
\* hg38 identifier of an 'exome200k' annotation row; its V is that annotation
\* row's hg19 identifier CHROM:POS:REF:ALT and its other columns, ld_indep
\* apart, are those of the exome row.  Every such pair of rows gives exactly
\* one row, and an exome row without such an annotation row gives none.
C7_ExomeRowsConverted ==
    cmb_pc # "read" =>
        /\ \A n \in 1..Len(exome_hg19_df) :
             LET a == annotation_df[exome_hg19_src[n].annot]
                 e == in_exome_df[exome_hg19_src[n].exome]
             IN /\ ExomeMatch(exome_hg19_src[n].annot, exome_hg19_src[n].exome)
                /\ exome_hg19_df[n].V = <<a.CHROM, a.POS, a.REF, a.ALT>>
                /\ DOMAIN exome_hg19_df[n] = DOMAIN e
                /\ \A c \in (DOMAIN e) \ {"V", "ld_indep"} : exome_hg19_df[n][c] = e[c]
        /\ \A i \in 1..Len(annotation_df), j \in 1..Len(in_exome_df) :
             Cardinality({n \in 1..Len(exome_hg19_df) :
                            exome_hg19_src[n] = [annot |-> i, exome |-> j]})
                = IF ExomeMatch(i, j) THEN 1 ELSE 0

\* An exome row kept with a new identifier, beside an exome row that is
\* dropped although an 'array' annotation row has its hg38 identifier.
C7_Witness ==
    /\ cmb_pc = "exome_hg19"
    /\ \E n \in 1..Len(exome_hg19_df) :
         exome_hg19_df[n].V # in_exome_df[exome_hg19_src[n].exome].V
    /\ \E j \in 1..Len(in_exome_df) :
         /\ \A n \in 1..Len(exome_hg19_df) : exome_hg19_src[n].exome # j
         /\ \E i \in 1..Len(annotation_df) :
              /\ annotation_df[i].geno_data_source = "array"
              /\ in_exome_df[j].V = <<annotation_df[i].CHROM_hg38, annotation_df[i].POS_hg38,
                                      annotation_df[i].REF_hg38, annotation_df[i].ALT_hg38>>

\* C8: the rows of the combined dataset, and of the file written from it, are
\* in the order of the annotation file: a row matched to an earlier
\* annotation row comes before a row matched to a later one, whichever input
\* the rows came from; each row's V is the hg19 identifier of its annotation
\* row.
C8_AnnotationOrder ==
    /\ CombinedMade =>
         /\ \A m, n \in 1..Len(combined_df) :
              combined_src[m].sort_order < combined_src[n].sort_order => m < n
         /\ \A n \in 1..Len(combined_df) :
              LET a == annotation_df[combined_src[n].sort_order]
              IN combined_df[n].V = <<a.CHROM, a.POS, a.REF, a.ALT>>
    /\ cmb_pc = "written" => out_f = combined_df

\* A written dataset in which a row from the array input, matched to an earlier
\* annotation row, stands before a row from the exome input, although
\* bind_rows put the exome rows first.
C8_Witness ==
    /\ cmb_pc = "written"
    /\ \E m, n \in 1..Len(out_f) :
         /\ m < n
         /\ combined_src[m].origin = "array"
         /\ combined_src[n].origin = "exome"
         /\ combined_src[m].sort_order < combined_src[n].sort_order

\* The hg19 identifiers of the rows of the annotation.
AnnotationHg19Ids ==
    {<<annotation_df[i].CHROM, annotation_df[i].POS, annotation_df[i].REF,
       annotation_df[i].ALT>> : i \in 1..Len(annotation_df)}

\* C16: every row of combined_df has the hg19 identifier of some row of the
\* annotation as its V; an array row, or a converted exome row, whose V is
\* the identifier of no annotation row is in no row of combined_df, and one
\* whose V is an annotation identifier is in some row.
C16_CombinedVInAnnotation ==
    CombinedMade =>
        /\ \A n \in 1..Len(combined_df) : combined_df[n].V \in AnnotationHg19Ids
        /\ \A k \in 1..Len(in_array_df) :
             (in_array_df[k].V \in AnnotationHg19Ids)
               <=> \E n \in 1..Len(combined_df) :
                      /\ combined_src[n].origin = "array"
                      /\ combined_src[n].row = k
                      /\ combined_df[n] = in_array_df[k]
        /\ \A k \in 1..Len(exome_hg19_df) :
             (exome_hg19_df[k].V \in AnnotationHg19Ids)
               <=> \E n \in 1..Len(combined_df) :
                      /\ combined_src[n].origin = "exome"
                      /\ combined_df[n] = exome_hg19_df[k]

\* An array row missing from the annotation was dropped: combined_df has
\* rows, and fewer than the array and the converted exome rows together.
C16_Witness ==
    /\ CombinedMade
    /\ \E k \in 1..Len(in_array_df) : in_array_df[k].V \notin AnnotationHg19Ids
    /\ combined_df # <<>>
    /\ Len(combined_df) < Len(in_array_df) + Len(exome_hg19_df)

\* The columns of the rows of a table.
ColumnsOf(df) == {DOMAIN df[n] : n \in 1..Len(df)}

\* C17: the rows of combined_df, and of the file written, have the eight
\* columns of the rows of the array and exome files and no other: neither
\* CHROM, POS, REF, ALT nor sort_order.
C17_SameEightColumns ==
    /\ \A cols \in ColumnsOf(combined_df) \cup ColumnsOf(out_f) \cup ColumnsOf(exome_hg19_df) :
         /\ cols \in ColumnsOf(in_array_df) \cup ColumnsOf(in_exome_df)
         /\ Cardinality(cols) = 8
         /\ cols \cap {"CHROM", "POS", "REF", "ALT", "sort_order"} = {}
    /\ Cardinality(ColumnsOf(in_array_df) \cup ColumnsOf(in_exome_df)) <= 1

\* The file was written with a row from the array and a row from the exome.
C17_Witness ==
    /\ cmb_pc = "written"
    /\ \E n, k \in 1..Len(out_f) :
         /\ combined_src[n].origin = "array"
         /\ combined_src[k].origin = "exome"
         /\ Cardinality(DOMAIN out_f[n]) = 8
         /\ DOMAIN out_f[k] = DOMAIN out_f[n]

(***************************************************************************)
(* Claims about mrp.py                                                      *)
(***************************************************************************)
MethodsListed == {args.p_value.methods[k] : k \in 1..Len(args.p_value.methods)}

\* C9: every group analysed gets a Bayes factor; p-values are computed only
\* when --p_value comes with a method: without --p_value no row has a
\* p-value, with --p_value and no method the program stops with an error and
\* analyses nothing, and with several methods every row has one p-value for
\* each method listed and for no other.
C9_PValueOnlyWhenAsked ==
    /\ (args.p_value.invoked /\ args.p_value.methods = <<>>) =>
           mrp_pc \in {"start", "error"} /\ results = {}
    /\ mrp_pc = "error" => args.p_value.invoked /\ args.p_value.methods = <<>>
    /\ \A r \in results :
           /\ r.BF
           /\ r.p_value = IF args.p_value.invoked THEN MethodsListed ELSE {}
    /\ mrp_pc = "done" =>
           \A vs \in DOMAIN analysed : \A i \in analysed[vs] :
               \E r \in results : r.variants = vs /\ r.gene = GeneOf(i)

\* A finished run with --p_value and two methods: its rows carry both p-values.
C9_Witness ==
    /\ mrp_pc = "done"
    /\ Cardinality(MethodsListed) = 2
    /\ \E r \in results : r.BF /\ r.p_value = MethodsListed

\* The group of the README a consequence belongs to.
IsPTV(c) == c \in ptv
IsPAV(c) == c \in pav
IsPCV(c) == c \in proximal_coding

\* C10: 'ptv' analyses exactly the PTVs of the metadata, 'pav' the PAVs and
\* the PTVs, 'pcv' the PCVs, the PAVs and the PTVs; the variants analysed
\* grow along ptv, pav, pcv, all.
C10_VariantSetsCascade ==
    /\ "ptv" \in DOMAIN analysed =>
         analysed["ptv"] = {i \in DOMAIN metadata : IsPTV(metadata[i])}
    /\ "pav" \in DOMAIN analysed =>
         analysed["pav"] = {i \in DOMAIN metadata : IsPTV(metadata[i]) \/ IsPAV(metadata[i])}
    /\ "pcv" \in DOMAIN analysed =>
         analysed["pcv"] = {i \in DOMAIN metadata :
                              IsPTV(metadata[i]) \/ IsPAV(metadata[i]) \/ IsPCV(metadata[i])}
    /\ \A a, b \in DOMAIN analysed :
         (<<a, b>> \in {<<"ptv", "pav">>, <<"pav", "pcv">>, <<"pcv", "all">>})
             => analysed[a] \subseteq analysed[b]

\* A finished run of ptv, pav and pcv over a PTV and a PAV: ptv keeps one
\* variant, pav and pcv both.
C10_Witness ==
    /\ mrp_pc = "done"
    /\ {"ptv", "pav", "pcv"} \subseteq DOMAIN analysed
    /\ Cardinality(analysed["ptv"]) = 1
    /\ Cardinality(analysed["pav"]) = 2
    /\ analysed["pcv"] = analysed["pav"]
    /\ \E i \in analysed["pav"] : IsPAV(metadata[i])

\* The floats given on the command line.
FloatsGiven == args.maf_thresh \cup args.se_thresh \cup args.prior_odds

\* C11: a run is analysed only if every value given to --maf_thresh,
\* --se_thresh and --prior_odds lies between 0 and 1; with a value outside
\* the run is rejected and nothing is analysed.
C11_ThresholdsWithinUnitInterval ==
    (\E x \in FloatsGiven : ~(0 <= x /\ x <= Unit)) =>
        /\ mrp_pc \in {"start", "error"}
        /\ analyses = <<>>
        /\ results = {}

\* The variants that some analysis of the run kept.
EverAnalysed == UNION {analysed[vs] : vs \in DOMAIN analysed}

UsedValues(o) == IF args[o] = {} THEN {Default(o)} ELSE args[o]

\* C14: a finished run has analysed every combination of the values given
\* for --R_study, --R_var, --M, --sigma_m_types, --variants, --maf_thresh and
\* --se_thresh, each once: every analysis takes its values among those
\* given (the default for an option that is absent), no two analyses are
\* the same combination, and there are as many as combinations. Without any
\* option the only analysis is the default one.
C14_EveryCombinationOnce ==
    /\ \A k \in 1..Len(analyses) :
         /\ DOMAIN analyses[k] = GridOptionSet
         /\ \A o \in GridOptionSet : analyses[k][o] \in UsedValues(o)
    /\ \A k, l \in 1..Len(analyses) : analyses[k] = analyses[l] => k = l
    /\ mrp_pc = "done" =>
         Len(analyses) = Cardinality(UsedValues("R_study")) * Cardinality(UsedValues("R_var"))
                         * Cardinality(UsedValues("M")) * Cardinality(UsedValues("sigma_m_types"))
                         * Cardinality(UsedValues("variants")) * Cardinality(UsedValues("maf_thresh"))
                         * Cardinality(UsedValues("se_thresh"))
    /\ (mrp_pc = "done" /\ \A o \in GridOptionSet : args[o] = {}) =>
         analyses = <<[R_study |-> "similar", R_var |-> "independent", M |-> "gene",
                       sigma_m_types |-> "sigma_m_mpc_pli", variants |-> "ptv",
                       maf_thresh |-> DefaultMafThresh, se_thresh |-> DefaultSeThresh]>>

\* A finished run with two values of --R_var and two of --maf_thresh: four
\* analyses.
C14_Witness ==
    /\ mrp_pc = "done"
    /\ Cardinality(args.R_var) = 2
    /\ Cardinality(args.maf_thresh) = 2
    /\ Len(analyses) = 4

\* The spreads of the groups that list a consequence.
SpreadsOf(c) ==
    (IF c \in ptv THEN {SigmaPTV} ELSE {})
    \cup (IF c \in pav THEN {SigmaPAV} ELSE {})
    \cup (IF c \in proximal_coding THEN {SigmaPCV} ELSE {})
    \cup (IF c \in intron THEN {SigmaIntron} ELSE {})

\* C21: no consequence is in two of the groups ptv, pav, proximal_coding and
\* intron, so that the groups of a variant's consequence give it one spread
\* only, the one it was assigned.
C21_GroupsPairwiseDisjoint ==
    /\ ptv \cap pav = {}
    /\ ptv \cap proximal_coding = {}
    /\ ptv \cap intron = {}
    /\ pav \cap proximal_coding = {}
    /\ pav \cap intron = {}
    /\ proximal_coding \cap intron = {}
    /\ \A i \in DOMAIN sigma_m : SpreadsOf(metadata[i]) = {sigma_m[i]}

\* An accepted run over a PTV and a PAV: each has the spread of its group.
C21_Witness ==
    /\ mrp_pc \in {"running", "done"}
    /\ \E i, j \in DOMAIN sigma_m :
         /\ metadata[i] \in ptv /\ sigma_m[i] = SigmaPTV
         /\ metadata[j] \in pav /\ sigma_m[j] = SigmaPAV

(***************************************************************************)
(* Claims about process_phenotypes.py                                       *)
(***************************************************************************)
\* The position, counted from 0, of a code in the sorted list of the codes.
PositionOf(code) == Cardinality({c \in ph_codes : StemIdx(c) < StemIdx(code)})

InRange(code) ==
    /\ code \in ph_codes
    /\ start_index <= PositionOf(code)
    /\ PositionOf(code) < end_index

====
